---- MODULE Spec2Model ----
(***************************************************************************)
(* H-Req (src/hreq.py, src/main.py): the request composer and the response *)
(* renderer / history recorder of process_request, the history tree with   *)
(* its selection and delete handlers, saving and loading the history file, *)
(* and the construction of the window from the command line.               *)
(*                                                                         *)
(* Texts are sequences of lexical atoms: every JSON punctuation character, *)
(* quote and blank is an atom of its own; a run of other characters may be *)
(* one atom ("Content-Type") or several ("a","b") when a claim needs the   *)
(* characters apart.                                                       *)
(***************************************************************************)
EXTENDS Integers, Sequences, FiniteSets, TLC

VARIABLES
    http_verbs_combo_box,        \* currentText() of the method combo box
    url_line_edit,               \* text() of the URL line
    content_type_combo_box,      \* currentText() of the content type combo box
    body_text_edit,              \* toPlainText() of the body editor
    headers_text_edit,           \* toPlainText() of the headers editor
    response_text_edit,          \* what the response area shows
    status_bar,                  \* what the status line shows
    request_history_http_verbs,  \* method -> sequence of history entries
    server,                      \* how the endpoint answers this session's calls
    network_up,                  \* whether the endpoint can be reached now
    selection,                   \* the selected item of the history tree
    delete_history_entry_push_button,  \* isEnabled() of the delete button
    file,                        \* the history file on disk
    app,                         \* the command line and how construction went
    last                         \* what the last handler run did (observation)

vars == <<http_verbs_combo_box, url_line_edit, content_type_combo_box,
          body_text_edit, headers_text_edit, response_text_edit, status_bar,
          request_history_http_verbs, server, network_up, selection,
          delete_history_entry_push_button, file, app, last>>

form == <<http_verbs_combo_box, url_line_edit, content_type_combo_box,
          body_text_edit, headers_text_edit>>

tree == <<selection, delete_history_entry_push_button>>

-----------------------------------------------------------------------------
(* Bounds *)

\* total number of history entries a behaviour may hold
MaxHistory == 2

-----------------------------------------------------------------------------
(* Program constants *)

http_verbs == <<"GET", "POST", "PUT", "PATCH", "DELETE", "OPTIONS", "HEAD">>

HttpVerbSet == {http_verbs[i] : i \in 1..Len(http_verbs)}

request_content_types == <<"PLAIN", "JSON", "XML">>

ContentTypeSet == {request_content_types[i] : i \in 1..Len(request_content_types)}

\* the set literal of the test at hreq.py:226
BodyVerbs == {"POST", "PUT", "PATCH"}

-----------------------------------------------------------------------------
(* Text helpers: str.strip, str.startswith, str.lower *)

Whitespace == {" ", "\n"}

RECURSIVE SkipWs(_, _)
SkipWs(s, i) ==
    IF i <= Len(s) /\ s[i] \in Whitespace THEN SkipWs(s, i + 1) ELSE i

RECURSIVE RStrip(_)
RStrip(s) ==
    IF s # <<>> /\ s[Len(s)] \in Whitespace
    THEN RStrip(SubSeq(s, 1, Len(s) - 1))
    ELSE s

strip(s) == RStrip(SubSeq(s, SkipWs(s, 1), Len(s)))

startswith(s, prefix) ==
    /\ Len(prefix) <= Len(s)
    /\ SubSeq(s, 1, Len(prefix)) = prefix

lower(verb) ==
    CASE verb = "GET" -> "get"
      [] verb = "POST" -> "post"
      [] verb = "PUT" -> "put"
      [] verb = "PATCH" -> "patch"
      [] verb = "DELETE" -> "delete"
      [] verb = "OPTIONS" -> "options"
      [] verb = "HEAD" -> "head"

-----------------------------------------------------------------------------
(* JSON values, json.loads and json.dumps(indent=4) *)

JStr(text) == [t |-> "str", s |-> text, items |-> <<>>]
JNum(text) == [t |-> "num", s |-> text, items |-> <<>>]
JLit(text) == [t |-> "lit", s |-> text, items |-> <<>>]
JArr(items) == [t |-> "arr", s |-> <<>>, items |-> items]
\* an object is its key/value pairs in insertion order, keys unique
JObj(pairs) == [t |-> "obj", s |-> <<>>, items |-> pairs]
JNone == [t |-> "none", s |-> <<>>, items |-> <<>>]

Digits == {"0", "1", "2", "3", "4", "5", "6", "7", "8", "9"}

Quote == "\""

\* dict[k] = v : replaces the value of an existing key in place, else appends
RECURSIVE DictIndex(_, _, _)
DictIndex(d, k, i) ==
    IF i > Len(d) THEN 0
    ELSE IF d[i][1] = k THEN i
    ELSE DictIndex(d, k, i + 1)

DictHas(d, k) == DictIndex(d, k, 1) # 0

DictGet(d, k) == d[DictIndex(d, k, 1)][2]

DictSet(d, k, v) ==
    IF DictHas(d, k)
    THEN [d EXCEPT ![DictIndex(d, k, 1)] = <<k, v>>]
    ELSE Append(d, <<k, v>>)

ParseOk(v, n) == [ok |-> TRUE, val |-> v, next |-> n, err |-> ""]
ParseFail(e) == [ok |-> FALSE, val |-> JNone, next |-> 0, err |-> e]

Backslash == "\\"

RECURSIVE ScanString(_, _)
\* index of the closing quote at or after i, 0 when the string is unterminated;
\* the atom after a backslash belongs to the string
ScanString(s, i) ==
    IF i > Len(s) THEN 0
    ELSE IF s[i] = Quote THEN i
    ELSE IF s[i] = Backslash THEN ScanString(s, i + 2)
    ELSE ScanString(s, i + 1)

\* the escapes of a JSON string that the model tells apart
Escapes == {Quote, Backslash, "/", "n", "t"}

Unescaped(a) ==
    CASE a = "n" -> "\n" [] a = "t" -> "\t" [] OTHER -> a

RECURSIVE StringError(_, _)
\* what the string scanner rejects in the atoms between the quotes
StringError(s, i) ==
    IF i > Len(s) THEN ""
    ELSE IF s[i] \in {"\n", "\t"} THEN "Invalid control character at"
    ELSE IF s[i] = Backslash
         THEN IF s[i + 1] \in Escapes THEN StringError(s, i + 2)
              ELSE "Invalid \\escape"
    ELSE StringError(s, i + 1)

RECURSIVE Decode(_, _)
\* the characters an escaped string stands for
Decode(s, i) ==
    IF i > Len(s) THEN <<>>
    ELSE IF s[i] = Backslash THEN <<Unescaped(s[i + 1])>> \o Decode(s, i + 2)
    ELSE <<s[i]>> \o Decode(s, i + 1)

RECURSIVE ScanNumber(_, _)
\* index after the run of digits that starts at i
ScanNumber(s, i) ==
    IF i <= Len(s) /\ s[i] \in Digits THEN ScanNumber(s, i + 1) ELSE i

\* the string whose atoms between the quotes are `inner`
StringBetween(inner, next) ==
    IF StringError(inner, 1) # "" THEN ParseFail(StringError(inner, 1))
    ELSE ParseOk(JStr(Decode(inner, 1)), next)

\* the string from the opening quote s[i] to the closing quote s[j]
StringUpTo(s, i, j) ==
    IF j = 0 \/ j > Len(s) THEN ParseFail("Unterminated string starting at")
    ELSE StringBetween(SubSeq(s, i + 1, j - 1), j + 1)

\* the string whose opening quote is s[i]
ParseString(s, i) == StringUpTo(s, i, ScanString(s, i + 1))

RECURSIVE ParseValue(_, _)
RECURSIVE ParseMembers(_, _, _)
RECURSIVE MemberKey(_, _, _)
RECURSIVE MemberColon(_, _, _, _)
RECURSIVE MemberValue(_, _, _, _)
RECURSIVE MemberEnd(_, _, _)
RECURSIVE ParseElements(_, _, _)
RECURSIVE ElementValue(_, _, _)
RECURSIVE ElementEnd(_, _, _)

\* the value that starts at s[i] (blanks before it already skipped)
ParseValue(s, i) ==
    IF i > Len(s) THEN ParseFail("Expecting value")
    ELSE IF s[i] = Quote THEN ParseString(s, i)
    ELSE IF s[i] = "{" THEN
        IF SkipWs(s, i + 1) <= Len(s) /\ s[SkipWs(s, i + 1)] = "}"
        THEN ParseOk(JObj(<<>>), SkipWs(s, i + 1) + 1)
        ELSE ParseMembers(s, SkipWs(s, i + 1), <<>>)
    ELSE IF s[i] = "[" THEN
        IF SkipWs(s, i + 1) <= Len(s) /\ s[SkipWs(s, i + 1)] = "]"
        THEN ParseOk(JArr(<<>>), SkipWs(s, i + 1) + 1)
        ELSE ParseElements(s, SkipWs(s, i + 1), <<>>)
    ELSE IF s[i] \in Digits THEN
        ParseOk(JNum(SubSeq(s, i, ScanNumber(s, i) - 1)), ScanNumber(s, i))
    ELSE IF s[i] \in {"null", "true", "false"} THEN
        ParseOk(JLit(<<s[i]>>), i + 1)
    ELSE ParseFail("Expecting value")

\* the members of an object from the key expected at s[i] on
ParseMembers(s, i, acc) ==
    IF i > Len(s) \/ s[i] # Quote
    THEN ParseFail("Expecting property name enclosed in double quotes")
    ELSE MemberKey(s, ParseString(s, i), acc)

\* ... after the key k was scanned
MemberKey(s, k, acc) ==
    IF ~k.ok THEN k ELSE MemberColon(s, k.val, SkipWs(s, k.next), acc)

\* ... with the colon expected at s[c]
MemberColon(s, key, c, acc) ==
    IF c > Len(s) \/ s[c] # ":" THEN ParseFail("Expecting ':' delimiter")
    ELSE MemberValue(s, key, ParseValue(s, SkipWs(s, c + 1)), acc)

\* ... after the member's value r was parsed
MemberValue(s, key, r, acc) ==
    IF ~r.ok THEN r
    ELSE MemberEnd(s, SkipWs(s, r.next), DictSet(acc, key, r.val))

\* ... with a comma or the closing brace expected at s[e]
MemberEnd(s, e, pairs) ==
    IF e <= Len(s) /\ s[e] = "}" THEN ParseOk(JObj(pairs), e + 1)
    ELSE IF e <= Len(s) /\ s[e] = ","
         THEN ParseMembers(s, SkipWs(s, e + 1), pairs)
    ELSE ParseFail("Expecting ',' delimiter")

\* the elements of an array from the value expected at s[i] on
ParseElements(s, i, acc) == ElementValue(s, ParseValue(s, i), acc)

\* ... after the element r was parsed
ElementValue(s, r, acc) ==
    IF ~r.ok THEN r ELSE ElementEnd(s, SkipWs(s, r.next), Append(acc, r.val))

\* ... with a comma or the closing bracket expected at s[e]
ElementEnd(s, e, items) ==
    IF e <= Len(s) /\ s[e] = "]" THEN ParseOk(JArr(items), e + 1)
    ELSE IF e <= Len(s) /\ s[e] = ","
         THEN ParseElements(s, SkipWs(s, e + 1), items)
    ELSE ParseFail("Expecting ',' delimiter")

\* a parsed value r with nothing but blanks allowed after it
WholeText(s, r) ==
    IF ~r.ok THEN r
    ELSE IF SkipWs(s, r.next) <= Len(s) THEN ParseFail("Extra data")
    ELSE r

\* json.loads(s): one value, blanks around it allowed, nothing after it
json_loads(s) == WholeText(s, ParseValue(s, SkipWs(s, 1)))

RECURSIVE Spaces(_)
Spaces(n) == IF n = 0 THEN <<>> ELSE <<" ">> \o Spaces(n - 1)

\* a writer that escapes nothing
EncodedRaw(a) == <<a>>

\* a string's character as json.dumps writes it
Encoded(a) ==
    CASE a = Quote -> <<Backslash, Quote>>
      [] a = Backslash -> <<Backslash, Backslash>>
      [] a = "\n" -> <<Backslash, "n">>
      [] a = "\t" -> <<Backslash, "t">>
      [] OTHER -> <<a>>

RECURSIVE Encode(_, _)
Encode(s, i) == IF i > Len(s) THEN <<>> ELSE Encoded(s[i]) \o Encode(s, i + 1)

RECURSIVE Dumps(_, _)
RECURSIVE DumpItems(_, _, _, _)

\* item i.. of an array or object, one per line at the given depth
DumpItems(v, i, depth, indent) ==
    IF i > Len(v.items) THEN <<>>
    ELSE
      LET item ==
            IF v.t = "obj"
            THEN Dumps(v.items[i][1], depth) \o <<":", " ">>
                 \o Dumps(v.items[i][2], depth)
            ELSE Dumps(v.items[i], depth)
          sep == IF i < Len(v.items) THEN <<",">> ELSE <<>>
      IN <<"\n">> \o Spaces(indent * depth) \o item \o sep
         \o DumpItems(v, i + 1, depth, indent)

\* json.dumps(v, indent=4) at nesting depth `depth`
Dumps(v, depth) ==
    CASE v.t = "str" -> <<Quote>> \o Encode(v.s, 1) \o <<Quote>>
      [] v.t \in {"num", "lit"} -> v.s
      [] v.t \in {"arr", "obj"} ->
           LET open == IF v.t = "arr" THEN "[" ELSE "{"
               close == IF v.t = "arr" THEN "]" ELSE "}"
           IN IF v.items = <<>> THEN <<open, close>>
              ELSE <<open>> \o DumpItems(v, 1, depth + 1, 4)
                   \o <<"\n">> \o Spaces(4 * depth) \o <<close>>

json_to_str(payload) == Dumps(payload, 0)

-----------------------------------------------------------------------------
(* dict.update(other), as CPython does it *)

UpdateOk(d) == [ok |-> TRUE, headers |-> d, err |-> ""]
UpdateFail(e) == [ok |-> FALSE, headers |-> <<>>, err |-> e]

\* the elements iter(v) yields: the characters of a string, the items of a
\* list, the keys of a dict (a string to be iterated is written one
\* character per atom)
IterItems(v) ==
    CASE v.t = "str" -> [i \in 1..Len(v.s) |-> JStr(<<v.s[i]>>)]
      [] v.t = "arr" -> v.items
      [] v.t = "obj" -> [i \in 1..Len(v.items) |-> v.items[i][1]]
      [] OTHER -> <<>>

Iterable(v) == v.t \in {"str", "arr", "obj"}

Hashable(v) == v.t \in {"str", "num", "lit"}

RECURSIVE MergePairs(_, _, _)
\* d[k] = v for every pair of a dict, in its order
MergePairs(d, pairs, i) ==
    IF i > Len(pairs) THEN d
    ELSE MergePairs(DictSet(d, pairs[i][1], pairs[i][2]), pairs, i + 1)

RECURSIVE UpdateFromSeq(_, _, _)
\* d.update(iterable): every element must itself iterate to a key and a value
UpdateFromSeq(d, elems, i) ==
    IF i > Len(elems) THEN UpdateOk(d)
    ELSE IF ~Iterable(elems[i])
    THEN UpdateFail("cannot convert dictionary update sequence element to a sequence")
    ELSE
      LET kv == IterItems(elems[i]) IN
      IF Len(kv) # 2
      THEN UpdateFail("dictionary update sequence element has length other than 2; 2 is required")
      ELSE IF ~Hashable(kv[1]) THEN UpdateFail("unhashable type")
      ELSE UpdateFromSeq(DictSet(d, kv[1], kv[2]), elems, i + 1)

dict_update(d, other) ==
    CASE other.t = "obj" -> UpdateOk(MergePairs(d, other.items, 1))
      [] other.t \in {"str", "arr"} -> UpdateFromSeq(d, IterItems(other), 1)
      [] OTHER -> UpdateFail("object is not iterable")

-----------------------------------------------------------------------------
(* The request composer: hreq.py:212-250, main.py:157-195 *)

ContentTypeKey == JStr(<<"Content-Type">>)

\* hreq.py:214-219: the XML literal is written with a blank after it
RequestContentType(content_type_text) ==
    CASE content_type_text = "PLAIN" -> <<"text/plain">>
      [] content_type_text = "JSON" -> <<"application/json">>
      [] content_type_text = "XML" -> <<"application/xml", " ">>

None == [some |-> FALSE, text |-> <<>>]
Some(text) == [some |-> TRUE, text |-> text]

\* a composer that trims the body it sends
RequestDataTrimmed(selected_http_verb, body_text, request_content_type) ==
    IF strip(body_text) # <<>> /\ selected_http_verb \in BodyVerbs
    THEN [some |-> TRUE, text |-> strip(body_text)]
    ELSE [some |-> FALSE, text |-> <<>>]

\* hreq.py:222-234: every branch under the method test assigns the same text
\* that line 225 assigned already
RequestData(selected_http_verb, body_text, request_content_type) ==
    IF strip(body_text) # <<>>
    THEN IF selected_http_verb \in BodyVerbs
         THEN CASE request_content_type = <<"text/plain">> -> Some(body_text)
                [] request_content_type = <<"application/json">> -> Some(body_text)
                [] request_content_type = <<"application/xml">> -> Some(body_text)
                [] OTHER -> Some(body_text)
         ELSE Some(body_text)
    ELSE None

\* hreq.py:236-238
DefaultHeaders(request_content_type) ==
    <<  <<ContentTypeKey, JStr(request_content_type)>>  >>

\* a composer that sends the default headers when the text does not parse
ComposeHeadersLenient(request_content_type, headers_text) ==
    LET headers == DefaultHeaders(request_content_type)
        custom_headers == json_loads(headers_text)
    IN IF strip(headers_text) # <<>> /\ custom_headers.ok
       THEN dict_update(headers, custom_headers.val)
       ELSE UpdateOk(headers)

\* hreq.py:241-250: [ok, headers, err]; err is str(err) of the exception
ComposeHeaders(request_content_type, headers_text) ==
    LET headers == DefaultHeaders(request_content_type) IN
    IF strip(headers_text) # <<>>
    THEN LET custom_headers == json_loads(headers_text) IN
         IF ~custom_headers.ok THEN UpdateFail(custom_headers.err)
         ELSE dict_update(headers, custom_headers.val)
    ELSE UpdateOk(headers)

-----------------------------------------------------------------------------
(* The HTTP call: requests.request and Response.raise_for_status *)

\* requests refuses header names and values that are not strings
HeadersValid(headers) ==
    \A i \in 1..Len(headers) : headers[i][1].t = "str" /\ headers[i][2].t = "str"

StatusCodes == {200, 304, 404, 500}

ResponseContentTypes == {<<"text/html">>, <<"application/json">>, <<"text/plain">>}

ResponseTexts == { <<"{", Quote, "a", Quote, ":", "1", "}">>, <<"<p>">> }

NoResponse ==
    [status_code |-> 0, has_content_type |-> FALSE, content_type |-> <<>>,
     text |-> <<>>]

Responses ==
    [status_code : StatusCodes, has_content_type : {TRUE},
     content_type : ResponseContentTypes, text : ResponseTexts]
    \cup [status_code : StatusCodes, has_content_type : {FALSE},
          content_type : {<<>>}, text : ResponseTexts]

InvalidHeader == [kind |-> "InvalidHeader", response |-> NoResponse]

\* the ways an endpoint can answer: no connection, no answer within
\* REQUEST_TIMEOUT_SEC, or a response
Servers ==
    {[kind |-> k, response |-> NoResponse] : k \in {"ConnectionError", "ReadTimeout"}}
    \cup {[kind |-> "Response", response |-> r] : r \in Responses}

\* what requests.request(...) does with a call: the header check comes
\* before anything is sent
Outcome(headers, endpoint, up) ==
    IF ~HeadersValid(headers) THEN InvalidHeader
    ELSE IF ~up THEN [kind |-> "ConnectionError", response |-> NoResponse]
    ELSE endpoint

\* a raise_for_status that lets client errors through
RaisesForServerErrors(status_code) ==
    500 <= status_code /\ status_code < 600

\* Response.raise_for_status: raises HTTPError for 4xx and 5xx only
RaisesForStatus(status_code) ==
    \/ (400 <= status_code /\ status_code < 500)
    \/ (500 <= status_code /\ status_code < 600)

HTTPErrorText(status_code) ==
    IF status_code < 500 THEN "Client Error" ELSE "Server Error"

-----------------------------------------------------------------------------
(* The response renderer: hreq.py:252-269, main.py:197-212 *)

Placeholder == [mode |-> "placeholder", content |-> <<>>]
\* QTextBrowser.setHtml / setText
Html(text) == [mode |-> "html", content |-> text]
PlainText(text) == [mode |-> "text", content |-> text]

StatusMessage(text) ==
    [msg |-> text, content_type |-> <<>>, code |-> 0, size |-> 0]

\* hreq.py:266-269 (the timestamp and the elapsed time are left out)
StatusResponse(response_content_type, code, size) ==
    [msg |-> <<"Response: ">>, content_type |-> response_content_type,
     code |-> code, size |-> size]

RenderOk(area, response_content_type) ==
    [ok |-> TRUE, area |-> area, response_content_type |-> response_content_type,
     err |-> ""]
RenderFail(e) ==
    [ok |-> FALSE, area |-> Placeholder, response_content_type |-> <<>>, err |-> e]

\* a renderer that wants the Content-Type to be the bare MIME string
RenderExactMatch(response, area) ==
    IF ~response.has_content_type THEN RenderFail("'content-type'")
    ELSE IF response.content_type = <<"text/html">>
    THEN RenderOk(Html(response.text), <<"text/html">>)
    ELSE IF response.content_type = <<"application/json">>
    THEN LET parsed == json_loads(response.text) IN
         IF ~parsed.ok THEN RenderFail(parsed.err)
         ELSE RenderOk(PlainText(json_to_str(parsed.val)), <<"application/json">>)
    ELSE RenderOk(area, <<"text/html">>)

\* a renderer that shows the body of any other content type as plain text
RenderAnyText(response, area) ==
    IF ~response.has_content_type THEN RenderFail("'content-type'")
    ELSE IF startswith(response.content_type, <<"text/html">>)
    THEN RenderOk(Html(response.text), <<"text/html">>)
    ELSE IF startswith(response.content_type, <<"application/json">>)
    THEN LET parsed == json_loads(response.text) IN
         IF ~parsed.ok THEN RenderFail(parsed.err)
         ELSE RenderOk(PlainText(json_to_str(parsed.val)), <<"application/json">>)
    ELSE RenderOk(PlainText(response.text), <<"text/html">>)

\* hreq.py:252, 259-264: response.headers["Content-Type"] raises KeyError
\* when the header is absent, response.json() raises when the body is no JSON
Render(response, area) ==
    IF ~response.has_content_type THEN RenderFail("'content-type'")
    ELSE IF startswith(response.content_type, <<"text/html">>)
    THEN RenderOk(Html(response.text), <<"text/html">>)
    ELSE IF startswith(response.content_type, <<"application/json">>)
    THEN LET parsed == json_loads(response.text) IN
         IF ~parsed.ok THEN RenderFail(parsed.err)
         ELSE RenderOk(PlainText(json_to_str(parsed.val)), <<"application/json">>)
    ELSE RenderOk(area, <<"text/html">>)

\* hreq.py:283-286: what the except branch shows
FailureMessage(err) == <<"Request failed: ">> \o err

\* a failure branch that leaves the status line alone, as the headers branch does
FailureStatusKept(old_status, error_msg) == old_status

\* hreq.py:286
FailureStatus(old_status, error_msg) == StatusMessage(error_msg)

\* f"{selected_http_verb} #{next_request_id}"
Label(verb, next_request_id) == [verb |-> verb, num |-> next_request_id]

\* a recorder that numbers a new entry with the child count itself
HistoryEntryOffByOne(verb, url, content_type_text, body_text, headers_text, count) ==
    [label |-> Label(verb, count),
     request_fields |->
        [selected_http_verb |-> verb, selected_url |-> url,
         content_type_text |-> content_type_text, body_text |-> body_text,
         headers_text |-> headers_text]]

\* hreq.py:271-281: the new child of the method's tree item
HistoryEntry(verb, url, content_type_text, body_text, headers_text, count) ==
    [label |-> Label(verb, count + 1),
     request_fields |->
        [selected_http_verb |-> verb, selected_url |-> url,
         content_type_text |-> content_type_text, body_text |-> body_text,
         headers_text |-> headers_text]]

\* hreq.py:254-286: [failed, err, area, status, append] for one outcome of
\* the call
Execute(outcome, area) ==
    IF outcome.kind # "Response"
    THEN [failed |-> TRUE, err |-> <<outcome.kind>>, area |-> area,
          response_content_type |-> <<>>]
    ELSE IF RaisesForStatus(outcome.response.status_code)
    THEN [failed |-> TRUE,
          err |-> <<HTTPErrorText(outcome.response.status_code)>>,
          area |-> area, response_content_type |-> <<>>]
    ELSE LET r == Render(outcome.response, area) IN
         IF ~r.ok
         THEN [failed |-> TRUE, err |-> <<r.err>>, area |-> area,
               response_content_type |-> <<>>]
         ELSE [failed |-> FALSE, err |-> <<>>, area |-> r.area,
               response_content_type |-> r.response_content_type]

-----------------------------------------------------------------------------
(* Inputs *)

Urls == {<<"http://a">>, <<"http://b">>}

BodyTexts == {<<>>, <<" ">>, <<" ", "a", " ">>}

HeaderObject == <<"{", Quote, "A", Quote, ":", " ", Quote, "b", Quote, "}">>

HeadersTexts ==
    { <<>>, <<" ">>,
      <<"not", " ", "json">>,
      <<"{", "}">>,
      HeaderObject,
      <<"{", Quote, "Content-Type", Quote, ":", Quote, "x/y", Quote, "}">>,
      <<"{", Quote, "A", Quote, ":", "1", "}">>,
      <<"[", "]">>,
      <<"[", "[", Quote, "A", Quote, ",", Quote, "b", Quote, "]", "]">>,
      <<"[", Quote, "a", "b", Quote, "]">>,
      <<"1">>, <<"null">>, <<"true">>,
      <<Quote, Quote>>, <<Quote, "a", "b", Quote>> }

\* the values the five fields can hold when the window opens (main() hands
\* the command line's values to the constructor)
ComposeInputs ==
    [method : HttpVerbSet, url : {<<"http://a">>}, content_type : ContentTypeSet,
     body : BodyTexts, headers : HeadersTexts]

\* the start values of the sessions that build a history
HistoryInputs ==
    [method : {"GET"}, url : Urls, content_type : {"JSON"},
     body : {<<" ", "a", " ">>}, headers : {<<>>, HeaderObject}]

-----------------------------------------------------------------------------
(* State machine *)

NoOutcome == [kind |-> "none", response |-> NoResponse]

\* nothing selected in the history tree
NoSelection == [kind |-> "none", verb |-> "", index |-> 0]

\* no history file on disk
NoFile == [exists |-> FALSE, text |-> <<>>]

\* a window built from a command line that gave all five values
Running(f) ==
    [state |-> "running",
     initial_values |->
       [some |-> TRUE,
        args |-> [url |-> Some(f.url), method |-> Some(<<f.method>>),
                  content_type |-> Some(<<f.content_type>>),
                  body |-> Some(f.body), headers |-> Some(f.headers)]],
     url_placeholder |-> FALSE, body_placeholder |-> FALSE,
     headers_placeholder |-> TRUE]

Idle ==
    [op |-> "none", sent |-> FALSE, verb |-> "", url |-> <<>>, data |-> None,
     headers |-> <<>>, outcome |-> NoOutcome, failed |-> FALSE,
     error_msg |-> <<>>,
     history_before |-> [v \in HttpVerbSet |-> <<>>],
     response_before |-> Placeholder, status_before |-> StatusMessage(<<>>),
     raised |-> FALSE, cancelled |-> FALSE, item |-> NoSelection,
     form_before |-> <<"", <<>>, "", <<>>, <<>>>>, file_before |-> NoFile]

RECURSIVE SumLen(_, _)
SumLen(h, S) ==
    IF S = {} THEN 0
    ELSE LET v == CHOOSE x \in S : TRUE IN Len(h[v]) + SumLen(h, S \ {v})

HistorySize == SumLen(request_history_http_verbs, HttpVerbSet)

\* the state after construction, the fields set from `inputs`, with the
\* endpoint and the history file on disk that the session finds
InitWith(inputs, servers, files) ==
    /\ \E f \in inputs :
         /\ http_verbs_combo_box = f.method
         /\ url_line_edit = f.url
         /\ content_type_combo_box = f.content_type
         /\ body_text_edit = f.body
         /\ headers_text_edit = f.headers
         /\ app = Running(f)
    /\ selection = NoSelection
    /\ delete_history_entry_push_button = FALSE
    /\ file \in files
    /\ response_text_edit = Placeholder
    /\ status_bar = StatusMessage(<<>>)
    /\ request_history_http_verbs = [v \in HttpVerbSet |-> <<>>]
    /\ server \in servers
    /\ network_up = TRUE
    /\ last = Idle

InitFrom(inputs) == InitWith(inputs, Servers, {NoFile})

Init == InitFrom(HistoryInputs)

InitCompose == InitFrom(ComposeInputs)

\* the user picks another method in the combo box
SetMethod ==
    /\ \E v \in HttpVerbSet \ {http_verbs_combo_box} : http_verbs_combo_box' = v
    /\ last' = Idle
    /\ UNCHANGED <<url_line_edit, content_type_combo_box, body_text_edit,
                   headers_text_edit, response_text_edit, status_bar,
                   request_history_http_verbs, server, network_up, tree,
                   file, app>>

\* the network goes down or comes back
NetworkChanges ==
    /\ network_up' = ~network_up
    /\ last' = Idle
    /\ UNCHANGED <<form, response_text_edit, status_bar,
                   request_history_http_verbs, server, tree, file, app>>

\* hreq.py:203-286, main.py:150-229
process_request ==
    /\ HistorySize < MaxHistory
    /\ LET selected_http_verb == http_verbs_combo_box
           selected_url == url_line_edit
           content_type_text == content_type_combo_box
           request_content_type == RequestContentType(content_type_text)
           body_text == body_text_edit
           data == RequestData(selected_http_verb, body_text, request_content_type)
           headers_text == headers_text_edit
           composed == ComposeHeaders(request_content_type, headers_text)
           before == [Idle EXCEPT !.op = "process_request",
                                  !.history_before = request_history_http_verbs,
                                  !.response_before = response_text_edit,
                                  !.status_before = status_bar]
       IN
       IF ~composed.ok
       THEN LET error_msg == <<"Failed to parse given headers: ", composed.err>> IN
            /\ response_text_edit' = PlainText(error_msg)
            /\ last' = [before EXCEPT !.failed = TRUE, !.error_msg = error_msg]
            /\ UNCHANGED <<status_bar, request_history_http_verbs>>
       ELSE LET outcome == Outcome(composed.headers, server, network_up)
                x == Execute(outcome, response_text_edit)
                call == [before EXCEPT !.sent = TRUE,
                                       !.verb = lower(selected_http_verb),
                                       !.url = selected_url,
                                       !.data = data,
                                       !.headers = composed.headers,
                                       !.outcome = outcome]
            IN
            IF x.failed
            THEN LET error_msg == FailureMessage(x.err) IN
                 /\ response_text_edit' = PlainText(error_msg)
                 /\ status_bar' = FailureStatus(status_bar, error_msg)
                 /\ last' = [call EXCEPT !.failed = TRUE, !.error_msg = error_msg]
                 /\ UNCHANGED request_history_http_verbs
            ELSE /\ response_text_edit' = x.area
                 /\ status_bar' = StatusResponse(x.response_content_type,
                                                 outcome.response.status_code,
                                                 Len(outcome.response.text))
                 /\ request_history_http_verbs' =
                      [request_history_http_verbs EXCEPT ![selected_http_verb] =
                         Append(@, HistoryEntry(selected_http_verb, selected_url,
                                                content_type_text, body_text,
                                                headers_text, Len(@)))]
                 /\ last' = call
    /\ UNCHANGED <<form, server, network_up, tree, file, app>>

Next == SetMethod \/ NetworkChanges \/ process_request

Spec == Init /\ [][Next]_vars

\* the composer applied to every input: a session that only sends
NextCompose == process_request

SpecCompose == InitCompose /\ [][NextCompose]_vars

-----------------------------------------------------------------------------
(* Properties of the composer (SpecCompose) *)

\* process_request has just run
Ran == last.op = "process_request"

\* process_request has just run and reached requests.request
Sent == Ran /\ last.sent

HeadersBlank == strip(headers_text_edit) = <<>>

BodyBlank == strip(body_text_edit) = <<>>

\* the MIME string the specification gives a content type label
MimeOf(label) ==
    CASE label = "PLAIN" -> <<"text/plain">>
      [] label = "JSON" -> <<"application/json">>
      [] label = "XML" -> <<"application/xml">>

\* the headers text as json.loads reads it
UserHeaders == json_loads(headers_text_edit)

HistoryUntouched == request_history_http_verbs = last.history_before

ShowsHeadersError ==
    /\ response_text_edit.mode = "text"
    /\ response_text_edit.content[1] = "Failed to parse given headers: "

\* C1: for GET, DELETE, OPTIONS and HEAD the body handed to the HTTP call is
\* None, whatever the body text is.
C1_NoBodyForBodylessMethods ==
    (Sent /\ http_verbs_combo_box \in {"GET", "DELETE", "OPTIONS", "HEAD"})
        => last.data = None

\* C2: with blank headers text the Content-Type header sent is exactly the
\* MIME string of the label: text/plain, application/json, application/xml.
C2_ContentTypeIsMime ==
    (Sent /\ HeadersBlank)
        => last.headers = << <<ContentTypeKey, JStr(MimeOf(content_type_combo_box))>> >>

\* C3: every request sent carries a Content-Type header; when the headers
\* text is a JSON object each of its keys is sent with the user's value, and
\* Content-Type is the label's MIME string unless the object has that key.
C3_UserHeadersMergedOverDefault ==
    Sent =>
        /\ DictHas(last.headers, ContentTypeKey)
        /\ (~HeadersBlank /\ UserHeaders.ok /\ UserHeaders.val.t = "obj") =>
             /\ \A i \in 1..Len(UserHeaders.val.items) :
                  /\ DictHas(last.headers, UserHeaders.val.items[i][1])
                  /\ DictGet(last.headers, UserHeaders.val.items[i][1])
                       = UserHeaders.val.items[i][2]
             /\ ~DictHas(UserHeaders.val.items, ContentTypeKey) =>
                  DictGet(last.headers, ContentTypeKey)
                      = JStr(MimeOf(content_type_combo_box))

\* C4: for POST, PUT and PATCH the body handed to the HTTP call is the body
\* text unchanged when it is not blank, under every content type, and None
\* when it is blank.
C4_BodySentVerbatim ==
    (Sent /\ http_verbs_combo_box \in {"POST", "PUT", "PATCH"}) =>
        IF BodyBlank THEN last.data = None
        ELSE last.data = [some |-> TRUE, text |-> body_text_edit]

\* a POST of a body with blanks around it, under the XML label, was sent as typed
C4_Witness ==
    /\ Sent
    /\ http_verbs_combo_box = "POST"
    /\ content_type_combo_box = "XML"
    /\ body_text_edit = <<" ", "a", " ">>
    /\ last.data.some /\ last.data.text = <<" ", "a", " ">>

\* C5: headers text that is not blank and not JSON: no HTTP call is made,
\* the response area shows a message that contains the parse error, and the
\* history is what it was.
C5_BadHeadersStopTheRequest ==
    (Ran /\ ~HeadersBlank /\ ~UserHeaders.ok) =>
        /\ ~last.sent
        /\ ShowsHeadersError
        /\ \E i \in 1..Len(response_text_edit.content) :
             response_text_edit.content[i] = UserHeaders.err
        /\ HistoryUntouched
        /\ status_bar = last.status_before

\* "not json" was rejected with json.loads's message
C5_Witness ==
    /\ Ran /\ ~last.sent
    /\ headers_text_edit = <<"not", " ", "json">>
    /\ response_text_edit.content =
         <<"Failed to parse given headers: ", "Expecting value">>

\* C6: headers text that is JSON but no JSON object (array, string, number,
\* boolean, null, the empty array included) fails with the headers error and
\* nothing is sent.
C6_NonObjectHeadersRejected ==
    (Ran /\ ~HeadersBlank /\ UserHeaders.ok /\ UserHeaders.val.t # "obj") =>
        /\ ~last.sent
        /\ ShowsHeadersError

-----------------------------------------------------------------------------
(* Properties of the renderer and the history recorder (Spec) *)

\* the call failed in transport, by timeout or by an HTTP error status
CallFailed ==
    /\ Sent
    /\ \/ last.outcome.kind \in {"ConnectionError", "ReadTimeout"}
       \/ /\ last.outcome.kind = "Response"
          /\ last.outcome.response.status_code \in 400..599

ShowsRequestFailed ==
    /\ response_text_edit.mode = "text"
    /\ startswith(response_text_edit.content, <<"Request failed: ">>)
    /\ Len(response_text_edit.content) > 1

\* the history of the selected method has one more entry, the others none
OneEntryAppended ==
    /\ Len(request_history_http_verbs[http_verbs_combo_box])
         = Len(last.history_before[http_verbs_combo_box]) + 1
    /\ \A v \in HttpVerbSet \ {http_verbs_combo_box} :
         request_history_http_verbs[v] = last.history_before[v]

\* C7: a call that fails by connection error, timeout or HTTP error status
\* shows one and the same "Request failed: ..." text in the response area and
\* in the status line, and leaves the history as it was.
C7_FailureShownTwiceNoEntry ==
    CallFailed =>
        /\ ShowsRequestFailed
        /\ status_bar.msg = response_text_edit.content
        /\ HistoryUntouched

\* a call failed while the history held an entry
C7_Witness ==
    /\ CallFailed
    /\ HistorySize > 0
    /\ status_bar.msg = <<"Request failed: ", "ConnectionError">>

\* C8 as claimed: every response whose status is outside 200..299 (304
\* included) is a failure: the message is shown and nothing is appended.
C8_Non2xxIsFailure ==
    (Sent /\ last.outcome.kind = "Response"
          /\ last.outcome.response.status_code \notin 200..299) =>
        /\ last.failed
        /\ ShowsRequestFailed
        /\ HistoryUntouched

\* C8 amended: every response whose status is in 400..599 is a failure: the
\* "Request failed:" message is shown and no history entry is appended.
C8_ErrorStatusIsFailure ==
    (Sent /\ last.outcome.kind = "Response"
          /\ last.outcome.response.status_code \in 400..599) =>
        /\ last.failed
        /\ ShowsRequestFailed
        /\ HistoryUntouched

\* a 404 answer was reported as a failure
C8_Witness ==
    /\ Sent /\ last.failed
    /\ last.outcome.kind = "Response"
    /\ last.outcome.response.status_code = 404
    /\ response_text_edit.content = <<"Request failed: ", "Client Error">>

\* C9: every call answered with a 2xx status appends exactly one record to
\* the history of the selected method, whatever the response's headers and
\* body are.
C9_Every2xxAppends ==
    (Sent /\ last.outcome.kind = "Response"
          /\ last.outcome.response.status_code \in 200..299) => OneEntryAppended

\* C10: a successful send appends, at the end of the selected method's
\* sequence, a record of the five values as they stand in the form, labelled
\* "{method} #{n+1}" for the n entries that method had; the other methods'
\* sequences are unchanged.
C10_RecordIsTheFormAsEntered ==
    (Sent /\ ~last.failed) =>
        LET verb == http_verbs_combo_box
            n == Len(last.history_before[verb])
        IN
        /\ request_history_http_verbs[verb] =
             Append(last.history_before[verb],
                    [label |-> [verb |-> verb, num |-> n + 1],
                     request_fields |->
                        [selected_http_verb |-> verb,
                         selected_url |-> url_line_edit,
                         content_type_text |-> content_type_combo_box,
                         body_text |-> body_text_edit,
                         headers_text |-> headers_text_edit]])
        /\ \A v \in HttpVerbSet \ {verb} :
             request_history_http_verbs[v] = last.history_before[v]

\* a second GET was recorded as "GET #2", raw headers text and untrimmed
\* body included
C10_Witness ==
    /\ Sent /\ ~last.failed
    /\ http_verbs_combo_box = "GET"
    /\ Len(request_history_http_verbs["GET"]) = 2
    /\ request_history_http_verbs["GET"][2].label = [verb |-> "GET", num |-> 2]
    /\ request_history_http_verbs["GET"][2].request_fields.headers_text = HeaderObject
    /\ request_history_http_verbs["GET"][2].request_fields.body_text = <<" ", "a", " ">>

-----------------------------------------------------------------------------
(* The history tree: selecting, deleting, saving and loading *)

\* what a child of a method item holds when it has no _request_fields
NoRequestFields ==
    [selected_http_verb |-> "", selected_url |-> <<>>, content_type_text |-> "",
     body_text |-> <<>>, headers_text |-> <<>>]

GroupNode(v) == [kind |-> "group", verb |-> v, index |-> 0]

EntryNode(v, i) == [kind |-> "entry", verb |-> v, index |-> i]

\* the items of the tree: the seven method items and their children
TreeItems(h) ==
    {GroupNode(v) : v \in HttpVerbSet}
      \cup UNION {{EntryNode(v, i) : i \in 1..Len(h[v])} : v \in HttpVerbSet}

\* hasattr(item, "_request_fields")
HasRequestFields(item, h) ==
    /\ item.kind = "entry"
    /\ h[item.verb][item.index].request_fields # NoRequestFields

\* a slot that leaves the headers editor alone
selection_changed_without_headers(selected_request, h) ==
    IF selected_request.kind = "none"
    THEN UNCHANGED <<form, delete_history_entry_push_button>>
    ELSE IF ~HasRequestFields(selected_request, h)
    THEN /\ delete_history_entry_push_button' = FALSE
         /\ UNCHANGED form
    ELSE
      LET fields == h[selected_request.verb][selected_request.index].request_fields IN
      /\ delete_history_entry_push_button' = TRUE
      /\ http_verbs_combo_box' = fields.selected_http_verb
      /\ url_line_edit' = fields.selected_url
      /\ content_type_combo_box' = fields.content_type_text
      /\ body_text_edit' = fields.body_text
      /\ UNCHANGED headers_text_edit

\* hreq.py:317-332, main.py:260-275: the slot of itemSelectionChanged, run
\* for the item that is selected now
on_request_history_selection_changed(selected_request, h) ==
    IF selected_request.kind = "none"
    THEN \* selectedItems()[0] raises IndexError
         UNCHANGED <<form, delete_history_entry_push_button>>
    ELSE IF ~HasRequestFields(selected_request, h)
    THEN /\ delete_history_entry_push_button' = FALSE
         /\ UNCHANGED form
    ELSE
      LET fields == h[selected_request.verb][selected_request.index].request_fields IN
      /\ delete_history_entry_push_button' = TRUE
      /\ IF fields.selected_http_verb \notin HttpVerbSet
         THEN \* http_verbs_map[...] raises KeyError
              UNCHANGED form
         ELSE /\ http_verbs_combo_box' = fields.selected_http_verb
              /\ url_line_edit' = fields.selected_url
              /\ IF fields.content_type_text \notin ContentTypeSet
                 THEN \* request_content_types_map[...] raises KeyError
                      UNCHANGED <<content_type_combo_box, body_text_edit,
                                  headers_text_edit>>
                 ELSE /\ content_type_combo_box' = fields.content_type_text
                      /\ body_text_edit' = fields.body_text
                      /\ headers_text_edit' = fields.headers_text

\* whether the slot ends in an exception for this item
SelectionRaises(selected_request, h) ==
    \/ selected_request.kind = "none"
    \/ /\ HasRequestFields(selected_request, h)
       /\ LET fields ==
                h[selected_request.verb][selected_request.index].request_fields
          IN \/ fields.selected_http_verb \notin HttpVerbSet
             \/ fields.content_type_text \notin ContentTypeSet

\* the user clicks an item of the tree, or clicks the selected one away
SelectItem ==
    /\ \E item \in (TreeItems(request_history_http_verbs) \cup {NoSelection})
                     \ {selection} :
         /\ selection' = item
         /\ on_request_history_selection_changed(item, request_history_http_verbs)
         /\ last' = [Idle EXCEPT
                       !.op = "select", !.item = item,
                       !.raised = SelectionRaises(item, request_history_http_verbs),
                       !.history_before = request_history_http_verbs,
                       !.form_before = form]
    /\ UNCHANGED <<response_text_edit, status_bar, request_history_http_verbs,
                   server, network_up, file, app>>

\* a removal that leaves the labels of the remaining children alone
RemoveChildKeepLabels(children, http_verb, index) ==
    [i \in 1..(Len(children) - 1) |->
       IF i < index THEN children[i] ELSE children[i + 1]]

\* hreq.py:342-346: removeChild, then every child is labelled again
RemoveChild(children, http_verb, index) ==
    [i \in 1..(Len(children) - 1) |->
       [(IF i < index THEN children[i] ELSE children[i + 1])
          EXCEPT !.label = Label(http_verb, i)]]

\* hreq.py:334-346, main.py:277-289: the delete button is clicked. Which item
\* the view selects after a removal is Qt's choice: none, the method item or
\* a remaining child; the selection slot then runs for it.
delete_request_history_entry ==
    /\ delete_history_entry_push_button
    /\ LET selected_request == selection
           before == [Idle EXCEPT !.op = "delete", !.item = selection,
                                  !.history_before = request_history_http_verbs,
                                  !.form_before = form]
       IN
       IF selected_request.kind = "none"
       THEN \* selectedItems()[0] raises IndexError
            /\ last' = [before EXCEPT !.raised = TRUE]
            /\ UNCHANGED <<form, tree, request_history_http_verbs>>
       ELSE IF ~HasRequestFields(selected_request, request_history_http_verbs)
       THEN /\ delete_history_entry_push_button' = FALSE
            /\ last' = before
            /\ UNCHANGED <<form, selection, request_history_http_verbs>>
       ELSE
         LET http_verb == selected_request.verb
             h == [request_history_http_verbs EXCEPT ![http_verb] =
                     RemoveChild(@, http_verb, selected_request.index)]
         IN
         /\ request_history_http_verbs' = h
         /\ \E item \in {NoSelection, GroupNode(http_verb)}
                          \cup {EntryNode(http_verb, i) : i \in 1..Len(h[http_verb])} :
              /\ selection' = item
              /\ on_request_history_selection_changed(item, h)
         /\ last' = before
    /\ UNCHANGED <<response_text_edit, status_bar, server, network_up, file, app>>

RequestFieldNames ==
    <<"selected_http_verb", "selected_url", "content_type_text", "body_text",
      "headers_text">>

\* the dict of one entry as json.dump sees it
RequestFieldsJson(fields) ==
    JObj(<< <<JStr(<<"selected_http_verb">>), JStr(<<fields.selected_http_verb>>)>>,
            <<JStr(<<"selected_url">>), JStr(fields.selected_url)>>,
            <<JStr(<<"content_type_text">>), JStr(<<fields.content_type_text>>)>>,
            <<JStr(<<"body_text">>), JStr(fields.body_text)>>,
            <<JStr(<<"headers_text">>), JStr(fields.headers_text)>> >>)

\* a save that leaves out the methods without history
SaveDataNonEmpty(h) ==
    LET used == SelectSeq(http_verbs, LAMBDA v : h[v] # <<>>) IN
    JObj([k \in 1..Len(used) |->
            <<JStr(<<used[k]>>),
              JArr([i \in 1..Len(h[used[k]]) |->
                      RequestFieldsJson(h[used[k]][i].request_fields)])>>])

\* hreq.py:353-358: data[http_verb] = [child._request_fields, ...] for the
\* seven methods in the order of http_verbs
SaveData(h) ==
    JObj([k \in 1..Len(http_verbs) |->
            <<JStr(<<http_verbs[k]>>),
              JArr([i \in 1..Len(h[http_verbs[k]]) |->
                      RequestFieldsJson(h[http_verbs[k]][i].request_fields)])>>])

LoadOk(h) == [raised |-> FALSE, history |-> h, err |-> ""]

LoadRaised(h, e) == [raised |-> TRUE, history |-> h, err |-> e]

\* the _request_fields of a loaded entry; the two combo box fields of the
\* files considered hold a string of one atom
LoadedFields(entry) ==
    [selected_http_verb |-> DictGet(entry.items, JStr(<<"selected_http_verb">>)).s[1],
     selected_url |-> DictGet(entry.items, JStr(<<"selected_url">>)).s,
     content_type_text |-> DictGet(entry.items, JStr(<<"content_type_text">>)).s[1],
     body_text |-> DictGet(entry.items, JStr(<<"body_text">>)).s,
     headers_text |-> DictGet(entry.items, JStr(<<"headers_text">>)).s]

RECURSIVE LoadEntries(_, _, _, _)
\* hreq.py:391-401: the entries i.. of one method of the file. The tree item
\* is created as a child (line 393) before the entry's fields are looked up
\* (lines 395-401).
LoadEntries(h, http_verb, values, i) ==
    IF i > Len(values) THEN LoadOk(h)
    ELSE
      LET entry == values[i]
          next_request_id == Len(h[http_verb]) + 1
          request_history_entry ==
            [label |-> Label(http_verb, next_request_id),
             request_fields |-> NoRequestFields]
      IN
      IF entry.t # "obj"
      THEN LoadRaised([h EXCEPT ![http_verb] = Append(@, request_history_entry)],
                      "TypeError")
      ELSE IF \E n \in 1..Len(RequestFieldNames) :
                 ~DictHas(entry.items, JStr(<<RequestFieldNames[n]>>))
      THEN LoadRaised([h EXCEPT ![http_verb] = Append(@, request_history_entry)],
                      "KeyError")
      ELSE LoadEntries(
             [h EXCEPT ![http_verb] =
                Append(@, [request_history_entry EXCEPT
                             !.request_fields = LoadedFields(entry)])],
             http_verb, values, i + 1)

RECURSIVE LoadMethods(_, _, _)
\* hreq.py:390-401: the items k.. of the file's object
LoadMethods(h, items, k) ==
    IF k > Len(items) THEN LoadOk(h)
    ELSE
      LET http_verb == items[k][1]
          values == items[k][2]
      IN
      IF ~Iterable(values) THEN LoadRaised(h, "TypeError")
      ELSE IF IterItems(values) = <<>> THEN LoadMethods(h, items, k + 1)
      ELSE IF ~(Len(http_verb.s) = 1 /\ http_verb.s[1] \in HttpVerbSet)
      THEN \* request_history_http_verbs[http_verb] raises KeyError
           LoadRaised(h, "KeyError")
      ELSE LET r == LoadEntries(h, http_verb.s[1], IterItems(values), 1) IN
           IF r.raised THEN r ELSE LoadMethods(r.history, items, k + 1)

\* a load that empties the tree before it populates it
LoadFileReplacing(h, text) ==
    LET r == json_loads(text) IN
    IF ~r.ok THEN LoadRaised(h, "JSONDecodeError")
    ELSE IF r.val.t # "obj" THEN LoadRaised(h, "AttributeError")
    ELSE LoadMethods([v \in HttpVerbSet |-> <<>>], r.val.items, 1)

\* a load that appends nothing when an entry is malformed
LoadFileAtomic(h, text) ==
    LET r == json_loads(text) IN
    IF ~r.ok THEN LoadRaised(h, "JSONDecodeError")
    ELSE IF r.val.t # "obj" THEN LoadRaised(h, "AttributeError")
    ELSE IF LoadMethods(h, r.val.items, 1).raised
         THEN LoadRaised(h, LoadMethods(h, r.val.items, 1).err)
    ELSE LoadMethods(h, r.val.items, 1)

\* hreq.py:385-401: json.load(file), then the tree is populated
LoadFile(h, text) ==
    LET r == json_loads(text) IN
    IF ~r.ok THEN LoadRaised(h, "JSONDecodeError")
    ELSE IF r.val.t # "obj" THEN LoadRaised(h, "AttributeError")
    ELSE LoadMethods(h, r.val.items, 1)

\* hreq.py:372-401, main.py:315-344: the load button is clicked; the dialog
\* is cancelled or the history file is picked
load_request_history ==
    /\ \E cancelled \in BOOLEAN :
         LET before == [Idle EXCEPT !.op = "load", !.file_before = file,
                                    !.history_before = request_history_http_verbs]
         IN
         IF cancelled
         THEN /\ last' = [before EXCEPT !.cancelled = TRUE]
              /\ UNCHANGED request_history_http_verbs
         ELSE /\ file.exists
              /\ LET r == LoadFile(request_history_http_verbs, file.text) IN
                 /\ SumLen(r.history, HttpVerbSet) <= MaxHistory
                 /\ request_history_http_verbs' = r.history
                 /\ last' = [before EXCEPT !.raised = r.raised]
    /\ UNCHANGED <<form, response_text_edit, status_bar, server, network_up,
                   tree, file, app>>

\* json.dump(data, file, indent=4)
FileOf(data) == [exists |-> TRUE, text |-> Dumps(data, 0)]

\* two requests of another session
RequestA ==
    [selected_http_verb |-> "GET", selected_url |-> <<"http://a">>,
     content_type_text |-> "JSON", body_text |-> <<>>, headers_text |-> <<>>]

RequestB ==
    [selected_http_verb |-> "POST", selected_url |-> <<"http://b">>,
     content_type_text |-> "XML", body_text |-> <<"<a/>", "\n">>,
     headers_text |-> HeaderObject]

\* a file another session saved: one GET request and one POST request
SavedElsewhere ==
    FileOf(SaveData([v \in HttpVerbSet |->
                       CASE v = "GET" -> <<[label |-> Label(v, 1),
                                            request_fields |-> RequestA]>>
                         [] v = "POST" -> <<[label |-> Label(v, 1),
                                             request_fields |-> RequestB]>>
                         [] OTHER -> <<>>]))

\* a hand-edited file whose second entry has lost its headers_text
MissingField ==
    FileOf(JObj(<< <<JStr(<<"POST">>),
                     JArr(<<RequestFieldsJson(RequestB),
                            JObj(SubSeq(RequestFieldsJson(RequestB).items, 1, 4))>>)>> >>))

\* a hand-edited file with entries under a key that is no method
UnknownMethod ==
    FileOf(JObj(<< <<JStr(<<"GET">>), JArr(<<RequestFieldsJson(RequestA)>>)>>,
                   <<JStr(<<"FETCH">>), JArr(<<RequestFieldsJson(RequestA)>>)>> >>))

HistoryFiles == {SavedElsewhere, MissingField, UnknownMethod}

\* an endpoint that answers every call with a page
PageServer ==
    [kind |-> "Response",
     response |-> [status_code |-> 200, has_content_type |-> TRUE,
                   content_type |-> <<"text/html">>, text |-> <<"<p>">>]]

TreeInputs ==
    [method : {"GET"}, url : {<<"http://b">>}, content_type : {"JSON"},
     body : {<<>>}, headers : {<<>>}]

InitTree == InitWith(TreeInputs, {PageServer}, HistoryFiles)

NextTree ==
    \/ process_request
    \/ SelectItem
    \/ delete_request_history_entry
    \/ load_request_history

\* a session that sends, loads, selects and deletes
SpecTree == InitTree /\ [][NextTree]_vars

-----------------------------------------------------------------------------
(* Construction from the command line (SpecStart) *)

\* str.upper() on the atoms a command line may hold
UpperAtom(a) ==
    CASE a = "get" -> "GET"
      [] a = "post" -> "POST"
      [] a = "json" -> "JSON"
      [] a = "xml" -> "XML"
      [] OTHER -> a

upper(text) == [i \in 1..Len(text) |-> UpperAtom(text[i])]

\* hreq.py:411-424: vars(parser.parse_args()) holds every flag, None for a
\* flag that was not given; initial_values is that dict when any flag was
\* given and None otherwise
InitialValues(args) ==
    [some |-> \/ args.url.some \/ args.method.some \/ args.content_type.some
              \/ args.body.some \/ args.headers.some,
     args |-> args]

Built(method, content_type, url, body, headers, url_placeholder, body_placeholder) ==
    [ok |-> TRUE, err |-> "", method |-> method, content_type |-> content_type,
     url |-> url, body |-> body, headers |-> headers,
     url_placeholder |-> url_placeholder, body_placeholder |-> body_placeholder,
     headers_placeholder |-> TRUE]

NotBuilt(err) ==
    [ok |-> FALSE, err |-> err, method |-> "", content_type |-> "",
     url |-> <<>>, body |-> <<>>, headers |-> <<>>,
     url_placeholder |-> FALSE, body_placeholder |-> FALSE,
     headers_placeholder |-> FALSE]

\* hreq.py:117-193: the widgets of the request section. `"method" in
\* initial_values` holds for every flag once the dict is passed, so the value
\* looked up may be None. none_is_text: whether the binding takes None for a
\* text argument (as the empty text) or raises TypeError.
init_request_section(initial_values, none_is_text) ==
    LET args == initial_values.args IN
    IF ~initial_values.some
    THEN Built(http_verbs[1], request_content_types[1], <<>>, <<>>, <<>>, TRUE, TRUE)
    ELSE IF ~args.method.some
    THEN NotBuilt("AttributeError")      \* None.upper()
    ELSE IF ~(Len(args.method.text) = 1
              /\ upper(args.method.text)[1] \in HttpVerbSet)
    THEN NotBuilt("KeyError")
    ELSE IF ~args.content_type.some
    THEN NotBuilt("AttributeError")      \* None.upper()
    ELSE IF ~(Len(args.content_type.text) = 1
              /\ upper(args.content_type.text)[1] \in ContentTypeSet)
    THEN NotBuilt("KeyError")
    ELSE IF /\ ~(args.url.some /\ args.body.some /\ args.headers.some)
            /\ ~none_is_text
    THEN NotBuilt("TypeError")           \* setText(None), setPlainText(None)
    ELSE Built(upper(args.method.text)[1], upper(args.content_type.text)[1],
               args.url.text, args.body.text, args.headers.text, FALSE, FALSE)

\* the values the flags of a command line may have
CommandLines ==
    [url : {None, Some(<<"http://a">>)},
     method : {None, Some(<<"GET">>), Some(<<"post">>)},
     content_type : {None, Some(<<"JSON">>), Some(<<"xml">>)},
     body : {None, Some(<<>>), Some(<<"a">>)},
     headers : {None, Some(HeaderObject)}]

\* the program was started and has not built its window yet
InitStart ==
    /\ \E args \in CommandLines :
         app = [state |-> "starting", initial_values |-> InitialValues(args),
                url_placeholder |-> FALSE, body_placeholder |-> FALSE,
                headers_placeholder |-> FALSE]
    /\ http_verbs_combo_box = ""
    /\ url_line_edit = <<>>
    /\ content_type_combo_box = ""
    /\ body_text_edit = <<>>
    /\ headers_text_edit = <<>>
    /\ response_text_edit = Placeholder
    /\ status_bar = StatusMessage(<<>>)
    /\ request_history_http_verbs = [v \in HttpVerbSet |-> <<>>]
    /\ server = PageServer
    /\ network_up = TRUE
    /\ selection = NoSelection
    /\ delete_history_entry_push_button = FALSE
    /\ file = NoFile
    /\ last = Idle

\* hreq.py:404-438 with HReqApplication.__init__: the window is built from
\* the command line, or the constructor raises and main() logs the error
main ==
    /\ app.state = "starting"
    /\ \E none_is_text \in BOOLEAN :
         LET w == init_request_section(app.initial_values, none_is_text) IN
         IF ~w.ok
         THEN /\ app' = [app EXCEPT !.state = "failed"]
              /\ last' = [Idle EXCEPT !.op = "main", !.raised = TRUE]
              /\ UNCHANGED form
         ELSE /\ app' = [app EXCEPT !.state = "running",
                                    !.url_placeholder = w.url_placeholder,
                                    !.body_placeholder = w.body_placeholder,
                                    !.headers_placeholder = w.headers_placeholder]
              /\ http_verbs_combo_box' = w.method
              /\ url_line_edit' = w.url
              /\ content_type_combo_box' = w.content_type
              /\ body_text_edit' = w.body
              /\ headers_text_edit' = w.headers
              /\ last' = [Idle EXCEPT !.op = "main"]
    /\ UNCHANGED <<response_text_edit, status_bar, request_history_http_verbs,
                   server, network_up, tree, file>>

\* the user sends the request of a window that was built
SendFromStart == app.state = "running" /\ process_request

NextStart == main \/ SendFromStart

SpecStart == InitStart /\ [][NextStart]_vars

Args == app.initial_values.args

\* C18: for every non-empty subset of the flags -u, -m, -d, -b, -t the
\* window is built without error, every field whose flag was given holds
\* the given value and every other field keeps its default (GET, PLAIN) or
\* shows its placeholder; with no flag all text fields show placeholders.
C18_AnyFlagsInitialise ==
    last.op = "main" =>
        /\ app.state = "running"
        /\ IF Args.method.some
           THEN <<http_verbs_combo_box>> = upper(Args.method.text)
           ELSE http_verbs_combo_box = "GET"
        /\ IF Args.content_type.some
           THEN <<content_type_combo_box>> = upper(Args.content_type.text)
           ELSE content_type_combo_box = "PLAIN"
        /\ IF Args.url.some
           THEN url_line_edit = Args.url.text
           ELSE url_line_edit = <<>> /\ app.url_placeholder
        /\ IF Args.body.some
           THEN body_text_edit = Args.body.text
           ELSE body_text_edit = <<>> /\ app.body_placeholder
        /\ IF Args.headers.some
           THEN headers_text_edit = Args.headers.text
           ELSE headers_text_edit = <<>> /\ app.headers_placeholder

-----------------------------------------------------------------------------
(* Saving, loading and starting again (SpecPersist) *)

\* hreq.py:348-370, main.py:277-295: the save action is triggered; the
\* dialog is cancelled or the history file is picked. child._request_fields
\* raises AttributeError for a child without it, before the dialog opens.
save_request_history ==
    /\ \E cancelled \in BOOLEAN :
         LET before == [Idle EXCEPT !.op = "save", !.file_before = file,
                                    !.history_before = request_history_http_verbs]
         IN
         IF \E v \in HttpVerbSet :
              \E i \in 1..Len(request_history_http_verbs[v]) :
                request_history_http_verbs[v][i].request_fields = NoRequestFields
         THEN /\ last' = [before EXCEPT !.raised = TRUE]
              /\ UNCHANGED file
         ELSE IF cancelled
         THEN /\ last' = [before EXCEPT !.cancelled = TRUE]
              /\ UNCHANGED file
         ELSE /\ file' = FileOf(SaveData(request_history_http_verbs))
              /\ last' = before
    /\ UNCHANGED <<form, response_text_edit, status_bar,
                   request_history_http_verbs, server, network_up, tree, app>>

\* hreq.py:299-303 and 404-438: the window is closed and the program is
\* started again with the same command line; the file stays on disk
Restart ==
    /\ app.state = "running"
    /\ \E none_is_text \in BOOLEAN :
         LET w == init_request_section(app.initial_values, none_is_text) IN
         /\ w.ok
         /\ http_verbs_combo_box' = w.method
         /\ url_line_edit' = w.url
         /\ content_type_combo_box' = w.content_type
         /\ body_text_edit' = w.body
         /\ headers_text_edit' = w.headers
    /\ response_text_edit' = Placeholder
    /\ status_bar' = StatusMessage(<<>>)
    /\ request_history_http_verbs' = [v \in HttpVerbSet |-> <<>>]
    /\ selection' = NoSelection
    /\ delete_history_entry_push_button' = FALSE
    /\ last' = [Idle EXCEPT !.op = "restart"]
    /\ UNCHANGED <<server, network_up, file, app>>

PersistInputs ==
    [method : {"GET"}, url : {<<"http://b">>}, content_type : {"JSON"},
     body : {<<>>}, headers : {<<>>, HeaderObject}]

InitPersist == InitWith(PersistInputs, {PageServer}, {NoFile} \cup HistoryFiles)

NextPersist ==
    \/ process_request
    \/ save_request_history
    \/ load_request_history
    \/ Restart

SpecPersist == InitPersist /\ [][NextPersist]_vars

-----------------------------------------------------------------------------
(* Properties of the history tree (SpecTree) *)

\* the delete handler removed the selected entry
Deleted ==
    /\ last.op = "delete"
    /\ ~last.raised
    /\ HasRequestFields(last.item, last.history_before)

\* the entries of a method without their labels
FieldsOf(children) == [i \in 1..Len(children) |-> children[i].request_fields]

-----------------------------------------------------------------------------
(* The renderer on the Content-Type values an endpoint may send (SpecRender) *)

\* Content-Type values with parameters and in another letter case
RenderContentTypes ==
    ResponseContentTypes
      \cup { <<"text/html", "; charset=utf-8">>,
             <<"application/json", "; charset=utf-8">>,
             <<"Text/HTML">>, <<"Application/JSON">> }

\* endpoints that answer 200 with one of these Content-Type values
RenderServers ==
    {[kind |-> "Response",
      response |-> [status_code |-> 200, has_content_type |-> TRUE,
                    content_type |-> c, text |-> t]] :
        c \in RenderContentTypes, t \in ResponseTexts}

InitRender == InitWith(HistoryInputs, RenderServers, {NoFile})

NextRender == NetworkChanges \/ process_request

SpecRender == InitRender /\ [][NextRender]_vars

\* the call returned a response that raise_for_status lets through
Succeeded ==
    /\ Sent
    /\ last.outcome.kind = "Response"
    /\ ~RaisesForStatus(last.outcome.response.status_code)

ResponseContentType == last.outcome.response.content_type

\* json.dumps({"a": 1}, indent=4)
PrettyA ==
    <<"{", "\n", " ", " ", " ", " ", Quote, "a", Quote, ":", " ", "1", "\n", "}">>

\* C12: on a successful call the response is classified by the first
\* case-sensitive prefix of its Content-Type that matches: text/html shows
\* the body verbatim as HTML and the status line reports text/html;
\* otherwise application/json shows the parsed body pretty-printed with an
\* indent of 4 as plain text and the status line reports application/json.
C12_ClassifiedByPrefix ==
    (Succeeded /\ last.outcome.response.has_content_type) =>
        /\ startswith(ResponseContentType, <<"text/html">>) =>
             /\ ~last.failed
             /\ response_text_edit = Html(last.outcome.response.text)
             /\ status_bar.content_type = <<"text/html">>
        /\ (/\ ~startswith(ResponseContentType, <<"text/html">>)
            /\ startswith(ResponseContentType, <<"application/json">>)
            /\ json_loads(last.outcome.response.text).ok) =>
             /\ ~last.failed
             /\ response_text_edit =
                  PlainText(Dumps(json_loads(last.outcome.response.text).val, 0))
             /\ last.outcome.response.text = <<"{", Quote, "a", Quote, ":", "1", "}">>
                  => response_text_edit.content = PrettyA
             /\ status_bar.content_type = <<"application/json">>

\* a JSON answer whose Content-Type carries a charset parameter was shown
\* pretty-printed
C12_Witness ==
    /\ Succeeded
    /\ ResponseContentType = <<"application/json", "; charset=utf-8">>
    /\ response_text_edit = PlainText(PrettyA)
    /\ status_bar.content_type = <<"application/json">>

\* C13: on a successful call whose Content-Type starts with neither
\* text/html nor application/json the response area keeps what it showed,
\* the status line is updated and reports text/html, and the history entry
\* is appended.
C13_OtherTypesLeaveTheArea ==
    (/\ Succeeded
     /\ last.outcome.response.has_content_type
     /\ ~startswith(ResponseContentType, <<"text/html">>)
     /\ ~startswith(ResponseContentType, <<"application/json">>)) =>
        /\ response_text_edit = last.response_before
        /\ status_bar = StatusResponse(<<"text/html">>,
                                       last.outcome.response.status_code,
                                       Len(last.outcome.response.text))
        /\ OneEntryAppended

\* an answer of another type arrived while the area showed the failure of
\* an earlier call and the status line showed that failure too
C13_Witness ==
    /\ Succeeded
    /\ ResponseContentType \in {<<"text/plain">>, <<"Text/HTML">>}
    /\ last.response_before.mode = "text"
    /\ response_text_edit = last.response_before
    /\ last.status_before # status_bar
    /\ status_bar.content_type = <<"text/html">>
    /\ OneEntryAppended

\* the five fields of the form as a record of an entry
FormFields ==
    [selected_http_verb |-> http_verbs_combo_box, selected_url |-> url_line_edit,
     content_type_text |-> content_type_combo_box, body_text |-> body_text_edit,
     headers_text |-> headers_text_edit]

-----------------------------------------------------------------------------
(* Properties of saving and loading (SpecPersist) *)

EmptyStore == [v \in HttpVerbSet |-> <<>>]

\* every child of the tree has its _request_fields
AllHaveFields(h) ==
    \A v \in HttpVerbSet :
      \A i \in 1..Len(h[v]) : h[v][i].request_fields # NoRequestFields

\* the load handler ran to its end
Loaded == last.op = "load" /\ ~last.cancelled /\ ~last.raised

\* C14: saving a store and loading the saved file into an empty store gives
\* the store back: for every method the same entries in the same order,
\* equal on the five fields and with the same labels.
C14_SaveLoadRoundTrip ==
    AllHaveFields(request_history_http_verbs) =>
        LoadFile(EmptyStore, FileOf(SaveData(request_history_http_verbs)).text)
          = LoadOk(request_history_http_verbs)

\* a request with quotes in its headers text was sent and saved, the
\* program was started again and the file loaded into its empty store
C14_Witness ==
    /\ Loaded
    /\ last.history_before = EmptyStore
    /\ Len(request_history_http_verbs["GET"]) > 0
    /\ request_history_http_verbs["GET"][1] =
         [label |-> Label("GET", 1),
          request_fields |->
            [selected_http_verb |-> "GET", selected_url |-> <<"http://b">>,
             content_type_text |-> "JSON", body_text |-> <<>>,
             headers_text |-> HeaderObject]]
    /\ file = FileOf(SaveData(request_history_http_verbs))

\* the object the loaded file holds
FileData == json_loads(last.file_before.text).val

\* the file's array for a method, empty when the file has no such key
FileArray(v) ==
    IF DictHas(FileData.items, JStr(<<v>>))
    THEN DictGet(FileData.items, JStr(<<v>>)).items
    ELSE <<>>

\* the entries of a method as the dicts a file holds
RecordsOf(children) ==
    [i \in 1..Len(children) |-> RequestFieldsJson(children[i].request_fields)]

\* C15: loading a file replaces the store: after the load every method's
\* sequence is exactly the file's array for that method, and what was in
\* memory before is gone.
C15_LoadReplaces ==
    Loaded =>
        \A v \in HttpVerbSet :
          RecordsOf(request_history_http_verbs[v]) = FileArray(v)

Saved == last.op = "save" /\ ~last.cancelled /\ ~last.raised

\* C17: save writes a JSON object whose keys are exactly the seven methods
\* in the order GET, POST, PUT, PATCH, DELETE, OPTIONS, HEAD, each with the
\* array of the method's records in sequence order (empty for a method
\* without history); save never changes the store; a cancelled dialog
\* writes nothing.
C17_SaveWritesSevenMethods ==
    last.op = "save" =>
        /\ request_history_http_verbs = last.history_before
        /\ last.cancelled => file = last.file_before
        /\ Saved =>
             /\ file.exists
             /\ json_loads(file.text).ok
             /\ LET data == json_loads(file.text).val IN
                /\ data.t = "obj"
                /\ Len(data.items) = 7
                /\ \A k \in 1..7 :
                     /\ data.items[k][1] = JStr(<<http_verbs[k]>>)
                     /\ data.items[k][2].t = "arr"
                     /\ data.items[k][2].items
                          = RecordsOf(request_history_http_verbs[http_verbs[k]])

\* a store with a GET entry was saved over another file
C17_Witness ==
    /\ Saved
    /\ Len(request_history_http_verbs["GET"]) > 0
    /\ request_history_http_verbs["POST"] = <<>>
    /\ last.file_before.exists
    /\ file # last.file_before

\* the places of the entries of the loaded file, in iteration order
Places ==
    UNION {{<<m, i>> : i \in 1..Len(IterItems(FileData.items[m][2]))} :
             m \in 1..Len(FileData.items)}

Before(p, q) == p[1] < q[1] \/ (p[1] = q[1] /\ p[2] < q[2])

\* the entry at a place has a key that is no method, or lacks a field
Malformed(p) ==
    \/ FileData.items[p[1]][1] \notin {JStr(<<v>>) : v \in HttpVerbSet}
    \/ \E n \in 1..Len(RequestFieldNames) :
         ~DictHas(FileData.items[p[1]][2].items[p[2]].items,
                  JStr(<<RequestFieldNames[n]>>))

FirstMalformed ==
    CHOOSE p \in Places : Malformed(p) /\ \A q \in Places : Malformed(q) => ~Before(q, p)

\* the entries of a method that come before the first malformed entry
Preceding(v) ==
    LET m == DictIndex(FileData.items, JStr(<<v>>), 1) IN
    IF m = 0 \/ m > FirstMalformed[1] THEN <<>>
    ELSE IF m < FirstMalformed[1] THEN FileData.items[m][2].items
    ELSE SubSeq(FileData.items[m][2].items, 1, FirstMalformed[2] - 1)

\* a file that holds a JSON object with a malformed entry was picked
LoadedMalformed ==
    /\ last.op = "load"
    /\ ~last.cancelled
    /\ json_loads(last.file_before.text).ok
    /\ FileData.t = "obj"
    /\ \E p \in Places : Malformed(p)

\* C20: load is not atomic: when an entry of the file is malformed (a field
\* is missing, or its top-level key is no method) load raises at that
\* entry, and every entry before it in the file has been appended to the
\* store and stays there.
C20_LoadKeepsWhatPreceded ==
    LoadedMalformed =>
        /\ last.raised
        /\ \A v \in HttpVerbSet :
             LET old == last.history_before[v]
                 new == request_history_http_verbs[v]
                 n == Len(old) + Len(Preceding(v))
             IN
             /\ Len(new) >= n
             /\ SubSeq(new, 1, Len(old)) = old
             /\ RecordsOf(SubSeq(new, Len(old) + 1, n)) = Preceding(v)

\* a load raised after it had appended an entry of the file
C20_Witness ==
    /\ LoadedMalformed
    /\ last.raised
    /\ \E v \in HttpVerbSet :
         /\ Len(Preceding(v)) = 1
         /\ Len(request_history_http_verbs[v]) > Len(last.history_before[v])
====
